---- MODULE Spec2Model ----
(***************************************************************************)
(* A model of vunit/sim_if/xsim.py: the XSimInterface adapter.             *)
(*                                                                         *)
(* Commands are sequences of strings, exactly as the Python lists are.     *)
(* Paths are kept as sequences of components and rendered to strings with  *)
(* the platform's separator where the code hands them to a command or a    *)
(* script.  simulate() is a process per calling thread, one action per     *)
(* statement that touches the lock, a child process or the file system.    *)
(***************************************************************************)
EXTENDS Integers, Sequences, FiniteSets, TLC

VARIABLES
    win,          \* sys.platform == "win32" or os.name == "os2"
    gui,          \* self._gui
    vcd_path,     \* self._vcd_path: [kind: "empty" | "abs" | "rel", parts]
    vcd_enable,   \* self._vcd_enable
    view,         \* self._view: [kind: "empty" | "abs" | "rel", parts]
    xelab_limit,  \* self._xelab_limit
    libraries,    \* self._libraries: insertion-ordered <<[name, directory]>>
    lock,         \* self._lock: the holding thread, or NoThread
    threads,      \* the threads that call into this adapter instance
    configs,      \* the configurations the test runner may pass to simulate()
    pc,           \* per thread: position inside simulate()
    call,         \* per thread: the arguments of the simulate() call in progress
    cmd,          \* per thread: the local `cmd` (the elaboration command)
    vivado_cmd,   \* per thread: the local `vivado_cmd`
    status,       \* per thread: the local `status`
    raised,       \* per thread: the exception that left simulate(), or ""
    elab,         \* per thread: the elaboration child: "none" | "running" | "zero" | "nonzero"
    sim,          \* per thread: the simulator child, same values
    trace,        \* per thread: the events of the call in progress, in order
    files,        \* file system: the set of rendered paths of existing waveform files
    trees,        \* file system: copied library trees, a set of <<output_path, basename>>
    scripts,      \* file system: output_path -> [exists, open, lines] of xsim_startup.tcl
    runs,         \* number of simulate() calls started so far
    result        \* return value of the last command-building method called

vars == <<win, gui, vcd_path, vcd_enable, view, xelab_limit, libraries, lock, threads,
          configs, pc, call, cmd, vivado_cmd, status, raised, elab, sim, trace,
          files, trees, scripts, runs, result>>

(***************************************************************************)
(* Bounds of the model.                                                    *)
(***************************************************************************)
MaxRuns == 3      \* simulate() calls started in one behaviour
MaxLibs == 2      \* libraries a project hands to setup_library_mapping

(***************************************************************************)
(* Strings, paths and the platform.                                        *)
(***************************************************************************)
RECURSIVE Join(_, _)
\* str.join: the elements of seq with sep between them.
Join(seq, sep) ==
    IF seq = <<>> THEN ""
    ELSE IF Len(seq) = 1 THEN seq[1]
    ELSE seq[1] \o sep \o Join(Tail(seq), sep)

\* sys.platform == "win32" or os.name == "os2", as the code tests it.
IsWindows(platform) == platform

\* os.sep of the platform.
Sep(platform) == IF IsWindows(platform) THEN "\\" ELSE "/"

\* An absolute path, rendered: the separator before every component.
PathStr(parts, platform) ==
    IF parts = <<>> THEN Sep(platform)
    ELSE Sep(platform) \o Join(parts, Sep(platform))

\* os.path.join(a, b, ...) of a rendered path and further components.
PathJoin(base, more, platform) ==
    IF more = <<>> THEN base
    ELSE base \o Sep(platform) \o Join(more, Sep(platform))

\* os.path.dirname and os.path.basename of an absolute path.
Dirname(parts) == IF parts = <<>> THEN <<>> ELSE SubSeq(parts, 1, Len(parts) - 1)
Basename(parts) == IF parts = <<>> THEN "" ELSE parts[Len(parts)]

\* A library directory: None, or a path.
None == [isNone |-> TRUE, parts |-> <<>>]
Dir(parts) == [isNone |-> FALSE, parts |-> parts]
\* `if library_path`: a directory is None or a non-empty path, so it is true
\* exactly when it is not None.
Truthy(d) == ~d.isNone

DropLast(parts, n) == SubSeq(parts, 1, IF Len(parts) > n THEN Len(parts) - n ELSE 0)

(***************************************************************************)
(* The toolchain install (ToolchainPaths).                                 *)
(***************************************************************************)
Prefix == <<"opt", "xilinx", "bin">>

\* The files under the install prefix: .bat launchers on Windows.
Installed(platform) ==
    IF IsWindows(platform)
    THEN {"xvlog.bat", "xvhdl.bat", "xelab.bat", "vivado.bat", "xsim.bat"}
    ELSE {"xvlog", "xvhdl", "xelab", "vivado", "xsim"}

check_tool(tool_name, platform) ==
    IF (tool_name \o ".bat") \in Installed(platform) THEN tool_name \o ".bat"
    ELSE IF tool_name \in Installed(platform) THEN tool_name
    ELSE "<Exception: Cannot find tool>"

Tool(tool_name, platform) ==
    PathJoin(PathStr(Prefix, platform), <<check_tool(tool_name, platform)>>, platform)

\* _format_command_for_os: one joined string on Windows, the list elsewhere.
format_command_for_os(c, platform) ==
    IF IsWindows(platform)
    THEN [kind |-> "str", argv |-> <<>>, line |-> Join(c, " ")]
    ELSE [kind |-> "list", argv |-> c, line |-> ""]

(***************************************************************************)
(* The library table.                                                      *)
(***************************************************************************)
Names(tbl) == {tbl[i].name : i \in 1..Len(tbl)}

\* dict[key] = value on an insertion-ordered dict.
DictSet(tbl, key, value) ==
    IF key \in Names(tbl)
    THEN [i \in 1..Len(tbl) |->
            IF tbl[i].name = key THEN [name |-> key, directory |-> value] ELSE tbl[i]]
    ELSE Append(tbl, [name |-> key, directory |-> value])

\* dict[key]
DictGet(tbl, key) == (CHOOSE i \in 1..Len(tbl) : tbl[i].name = key)

RECURSIVE AddLibraries(_, _)
\* for library in project.get_libraries(): self._libraries[name] = directory
AddLibraries(tbl, libs) ==
    IF libs = <<>> THEN tbl
    ELSE AddLibraries(DictSet(tbl, libs[1].name, libs[1].directory), Tail(libs))

\* A line of xsim.ini, tokenised: lib_pattern is (?P<name>\w+)\s*=\s*(?P<path>.+)
\* matched at the start of the line.
WordTokens == {"work", "lib", "unisim", "xpm"}
LineMatches(line) ==
    /\ Len(line) >= 3
    /\ line[1] \in WordTokens
    /\ line[2] = "="

std_lib_init_file(ini) == {ini[i][1] : i \in {j \in 1..Len(ini) : LineMatches(ini[j])}}

\* Remove the path for any precompiled libraries.
StripPrecompiled(tbl, ini) ==
    [i \in 1..Len(tbl) |->
        IF tbl[i].name \in std_lib_init_file(ini)
        THEN [name |-> tbl[i].name, directory |-> None]
        ELSE tbl[i]]

setup_library_mapping(tbl, libs, ini, platform) ==
    IF IsWindows(platform)
    THEN StripPrecompiled(AddLibraries(tbl, libs), ini)
    ELSE AddLibraries(tbl, libs)

\* One entry of libraries_command.
LibraryEntryAlwaysPath(e, platform) ==
    <<"-L", e.name \o "=" \o PathStr(e.directory.parts, platform)>>
LibraryEntry(e, platform) ==
    IF Truthy(e.directory)
    THEN IF IsWindows(platform)
         THEN <<"-L", "\"" \o e.name \o "="
                      \o PathJoin(PathStr(e.directory.parts, platform),
                                  <<"xsim.dir", "work">>, platform) \o "\"">>
         ELSE <<"-L", e.name \o "=" \o PathStr(e.directory.parts, platform)>>
    ELSE <<"-L", e.name>>

RECURSIVE libraries_command(_, _)
libraries_command(tbl, platform) ==
    IF tbl = <<>> THEN <<>>
    ELSE LibraryEntry(tbl[1], platform) \o libraries_command(Tail(tbl), platform)

(***************************************************************************)
(* Compile commands.                                                       *)
(***************************************************************************)
work_library_argument(source_file, platform) ==
    IF IsWindows(platform)
    THEN <<"-work", "\"" \o source_file.library.name \o "="
                    \o PathJoin(PathStr(source_file.library.directory, platform),
                                <<"xsim.dir", "work">>, platform) \o "\"">>
    ELSE <<"-work", source_file.library.name \o "="
                    \o PathStr(source_file.library.directory, platform)>>

RECURSIVE IncludeArgs(_)
IncludeArgs(dirs) ==
    IF dirs = <<>> THEN <<>>
    ELSE <<"--include", dirs[1]>> \o IncludeArgs(Tail(dirs))

RECURSIVE DefineArgs(_)
DefineArgs(defines) ==
    IF defines = <<>> THEN <<>>
    ELSE <<"--define", defines[1][1] \o "=" \o defines[1][2]>> \o DefineArgs(Tail(defines))

Returned(c) == [raised |-> "", value |-> c]
Raised(e) == [raised |-> e, value |-> [kind |-> "none", argv |-> <<>>, line |-> ""]]

compile_vhdl_file_command(source_file, tbl, platform) ==
    format_command_for_os(
        <<Tool("xvhdl", platform), source_file.name, "-2008">>
        \o work_library_argument(source_file, platform)
        \o libraries_command(tbl, platform), platform)

compile_verilog_file_command(source_file, c, tbl, platform) ==
    format_command_for_os(
        c \o work_library_argument(source_file, platform)
          \o libraries_command(tbl, platform)
          \o IncludeArgs(source_file.include_dirs)
          \o DefineArgs(source_file.defines), platform)

CompileFallThrough(source_file, tbl, platform) ==
    IF source_file.file_type = "vhdl"
    THEN Returned(compile_vhdl_file_command(source_file, tbl, platform))
    ELSE IF source_file.file_type = "systemverilog"
    THEN Returned(compile_verilog_file_command(source_file,
             <<Tool("xvlog", platform), "--sv", source_file.name>>, tbl, platform))
    ELSE Returned(compile_verilog_file_command(source_file,
             <<Tool("xvlog", platform), source_file.name>>, tbl, platform))
compile_source_file_command(source_file, tbl, platform) ==
    IF source_file.file_type = "vhdl"
    THEN Returned(compile_vhdl_file_command(source_file, tbl, platform))
    ELSE IF source_file.file_type = "verilog"
    THEN Returned(compile_verilog_file_command(source_file,
             <<Tool("xvlog", platform), source_file.name>>, tbl, platform))
    ELSE IF source_file.file_type = "systemverilog"
    THEN Returned(compile_verilog_file_command(source_file,
             <<Tool("xvlog", platform), "--sv", source_file.name>>, tbl, platform))
    ELSE Raised("CompileError")

(***************************************************************************)
(* simulate(): path resolution and the two commands.                       *)
(***************************************************************************)
RECURSIVE Normpath(_, _)
\* os.path.normpath of the components left to read, acc being the path so far:
\* ".." drops a component, and the root is its own parent.
Normpath(acc, rest) ==
    IF rest = <<>> THEN acc
    ELSE IF rest[1] = ".."
         THEN Normpath(DropLast(acc, 1), Tail(rest))
         ELSE Normpath(Append(acc, rest[1]), Tail(rest))

\* os.path.abspath(str(Path(output_path)) + "../../../../"): the text is appended
\* with no separator, so the last component becomes "<last>.." and is the first
\* one the ".." components drop.
runpy_dir(output_path) ==
    IF output_path = <<>> THEN <<>>
    ELSE Normpath(<<>>, DropLast(output_path, 1)
                        \o <<Basename(output_path) \o "..", "..", "..", "..">>)

\* A path option (self._vcd_path, self._view) against the run root.
ResolveVcdPath(opt, output_path, platform) ==
    IF opt.kind = "empty"
    THEN PathStr(output_path, platform) \o "/wave.vcd"
    ELSE IF opt.kind = "abs"
         THEN PathStr(opt.parts, platform)
         ELSE PathStr(runpy_dir(output_path), platform) \o "/" \o Join(opt.parts, "/")

\* str(Path(view).as_posix()) of the resolved view, or "" for None.
ResolveViewPosix(opt, output_path) ==
    IF opt.kind = "empty" THEN ""
    ELSE IF opt.kind = "abs"
         THEN PathStr(opt.parts, FALSE)
         ELSE PathStr(runpy_dir(output_path), FALSE) \o "/" \o Join(opt.parts, "/")

\* config.sim_options is [keys, enable_glbl, timescale, xelab_flags]: keys holds the
\* options that are set, and .get(key, default) reads a field only when its key is.
xelab_extra_args(config) ==
    IF "xsim.xelab_flags" \in config.sim_options.keys
    THEN config.sim_options.xelab_flags
    ELSE <<>>

Snapshot == "vunit_test"

GlblAlways(config) == <<config.library_name \o ".glbl">>
GlblArg(config) ==
    IF "xsim.enable_glbl" \in config.sim_options.keys /\ config.sim_options.enable_glbl
    THEN <<config.library_name \o ".glbl">>
    ELSE <<>>

TimescaleArg(config) ==
    IF "xsim.timescale" \in config.sim_options.keys /\ config.sim_options.timescale /= ""
    THEN <<"-timescale", config.sim_options.timescale>>
    ELSE <<>>

\* Lines 266-291: the command up to the timescale.
ElabCommandHead(config, tbl, platform) ==
    <<Tool("xelab", platform), "-debug", "typical">>
    \o libraries_command(tbl, platform)
    \o <<"--notimingchecks", "--nospecify", "--nolog", "--relax", "--incr",
         "--sdfnowarn", "--stats", "--O0", "--snapshot", Snapshot>>
    \o <<config.library_name \o "." \o config.entity_name>>
    \o GlblArg(config)
    \o TimescaleArg(config)

RECURSIVE GenericArgs(_, _)
\* Lines 294-299.
GenericArgs(generics, platform) ==
    IF generics = <<>> THEN <<>>
    ELSE (IF IsWindows(platform)
          THEN <<"--generic_top", "\"" \o generics[1][1] \o "=" \o generics[1][2] \o "\"">>
          ELSE <<"--generic_top", generics[1][1] \o "=" \o generics[1][2]>>)
         \o GenericArgs(Tail(generics), platform)

\* Lines 331-350.
VivadoCommand(output_path, is_gui, view_opt, platform) ==
    <<Tool("xsim", platform), Snapshot>>
    \o (IF is_gui THEN <<"--gui">> ELSE <<>>)
    \o <<"--tclbatch", PathStr(Append(output_path, "xsim_startup.tcl"), FALSE)>>
    \o (IF ResolveViewPosix(view_opt, output_path) /= ""
        THEN <<"--view", ResolveViewPosix(view_opt, output_path)>>
        ELSE <<>>)

\* Lines 356-365: what is written to xsim_startup.tcl.
ScriptLinesRunAlways(is_gui, capture, path) ==
    (IF capture THEN <<"open_vcd " \o path, "log_vcd *">> ELSE <<>>)
    \o <<"run all", "quit">>
ScriptLines(is_gui, capture, path) ==
    IF is_gui
    THEN (IF capture THEN <<"open_vcd " \o path, "log_vcd *">> ELSE <<>>)
    ELSE (IF capture THEN <<"open_vcd " \o path, "log_vcd *">> ELSE <<>>)
         \o <<"run all", "quit">>

\* except Process.NonZeroExitCode: status = False
HandlerPropagates(st, exit) ==
    IF exit = "nonzero"
    THEN [status |-> st, raised |-> "NonZeroExitCode"]
    ELSE [status |-> st, raised |-> ""]
ExceptNonZeroExitCode(st, exit) ==
    IF exit = "nonzero"
    THEN [status |-> FALSE, raised |-> ""]
    ELSE [status |-> st, raised |-> ""]

(***************************************************************************)
(* Inputs.                                                                 *)
(***************************************************************************)
Threads == {"t1", "t2"}
NoThread == "none"

OutputPaths ==
    {<<"proj", "vunit_out", "test_output", "tb_a">>,
     <<"proj", "vunit_out", "test_output", "tb_b">>}

LibRoot == <<"proj", "vunit_out", "xsim", "libraries">>

\* What project.get_libraries() may hold.
ProjectLibraries ==
    {[name |-> "work", directory |-> Dir(Append(LibRoot, "work"))],
     [name |-> "lib", directory |-> Dir(Append(LibRoot, "lib"))],
     [name |-> "lib", directory |-> Dir(<<"proj", "ext", "lib">>)],
     [name |-> "unisim", directory |-> Dir(<<"proj", "ext", "unisim">>)]}

RECURSIVE SeqsUpTo(_, _)
\* The sequences over S of length at most n.
SeqsUpTo(S, n) ==
    IF n = 0 THEN {<<>>}
    ELSE SeqsUpTo(S, n - 1)
         \cup {Append(q, x) : q \in {r \in SeqsUpTo(S, n - 1) : Len(r) = n - 1}, x \in S}

\* xsim.ini files, tokenised by line.
IniFiles ==
    {<<>>,
     <<<<"--", "precompiled", "libraries">>,
       <<"unisim", "=", "$RDI_DATADIR/xsim/vhdl/unisim">>,
       <<"xpm", "=", "$RDI_DATADIR/xsim/vhdl/xpm">>>>,
     <<<<"lib", "=", "$RDI_DATADIR/xsim/ip/lib">>, <<"unisim", "=">>>>}

\* The table simulate() runs against: the project of a build, mapped.
BuildLibraries(platform) ==
    setup_library_mapping(<<>>,
        <<[name |-> "work", directory |-> Dir(Append(LibRoot, "work"))],
          [name |-> "lib", directory |-> Dir(Append(LibRoot, "lib"))],
          [name |-> "unisim", directory |-> Dir(<<"proj", "ext", "unisim">>)]>>,
        <<<<"unisim", "=", "$RDI_DATADIR/xsim/vhdl/unisim">>>>, platform)

NoOptions == [keys |-> {}, enable_glbl |-> FALSE, timescale |-> "", xelab_flags |-> <<>>]

Configs ==
    {[library_name |-> "lib", entity_name |-> "tb_top", generics |-> <<>>,
      sim_options |-> NoOptions],
     [library_name |-> "lib", entity_name |-> "top",
      generics |-> <<<<"WIDTH", "8">>>>,
      sim_options |-> [keys |-> {"xsim.enable_glbl", "xsim.timescale", "xsim.xelab_flags"},
                       enable_glbl |-> TRUE, timescale |-> "1ns/1ps",
                       xelab_flags |-> <<"-mt", "off">>]],
     [library_name |-> "work", entity_name |-> "tb_top",
      generics |-> <<<<"WIDTH", "8">>, <<"DEPTH", "4">>>>,
      sim_options |-> [keys |-> {"xsim.enable_glbl", "xsim.timescale"},
                       enable_glbl |-> FALSE, timescale |-> "",
                       xelab_flags |-> <<>>]],
     [library_name |-> "work", entity_name |-> "top",
      generics |-> <<<<"DEPTH", "4">>>>,
      sim_options |-> [keys |-> {"xsim.xelab_flags"},
                       enable_glbl |-> TRUE, timescale |-> "1ns/1ps",
                       xelab_flags |-> <<"-mt", "off">>]]}

PathOptions ==
    {[kind |-> "empty", parts |-> <<>>],
     [kind |-> "abs", parts |-> <<"tmp", "wave.vcd">>],
     [kind |-> "rel", parts |-> <<"waves", "wave.vcd">>]}

ViewOptions ==
    {[kind |-> "empty", parts |-> <<>>],
     [kind |-> "rel", parts |-> <<"views", "tb.wcfg">>]}

SourceFiles ==
    {[name |-> "/proj/src/" \o ft, file_type |-> ft,
      library |-> [name |-> "lib", directory |-> Append(LibRoot, "lib")],
      include_dirs |-> inc, defines |-> def] :
        ft \in {"vhdl", "verilog", "systemverilog", "tcl", "Verilog"},
        inc \in {<<>>, <<"/proj/inc", "/proj/inc2">>},
        def \in {<<>>, <<<<"SIM", "1">>, <<"DEBUG", "">>>>}}

NoCall == [output_path |-> <<>>, elaborate_only |-> FALSE,
           config |-> [library_name |-> "", entity_name |-> "", generics |-> <<>>,
                       sim_options |-> NoOptions]]
NoCommand == [kind |-> "none", argv |-> <<>>, line |-> ""]
NoResult == [method |-> "", file_type |-> "", tbl |-> <<>>, raised |-> "",
             value |-> NoCommand]
NoScript == [exists |-> FALSE, open |-> FALSE, lines |-> <<>>]

(***************************************************************************)
(* Initial states.                                                         *)
(***************************************************************************)
\* What every specification starts from: no call in progress, no script, no tree.
Idle ==
    /\ lock = NoThread
    /\ pc = [t \in Threads |-> "idle"]
    /\ call = [t \in Threads |-> NoCall]
    /\ cmd = [t \in Threads |-> NoCommand]
    /\ vivado_cmd = [t \in Threads |-> NoCommand]
    /\ status = [t \in Threads |-> TRUE]
    /\ raised = [t \in Threads |-> ""]
    /\ elab = [t \in Threads |-> "none"]
    /\ sim = [t \in Threads |-> "none"]
    /\ trace = [t \in Threads |-> <<>>]
    /\ trees = {}
    /\ scripts = [o \in OutputPaths |-> NoScript]
    /\ runs = 0
    /\ result = NoResult

\* Two test-runner threads share the adapter.
Init ==
    /\ Idle
    /\ threads = Threads
    /\ configs = {c \in Configs : c.entity_name = "top" /\ c.library_name = "lib"}
    /\ win = FALSE
    /\ gui = FALSE
    /\ vcd_enable = TRUE
    /\ view = [kind |-> "empty", parts |-> <<>>]
    /\ xelab_limit \in BOOLEAN
    /\ vcd_path \in {o \in PathOptions : o.kind \in {"empty", "abs"}}
    /\ libraries = BuildLibraries(win)
    /\ files = {}

\* One thread, every setting of the adapter.
SeqInit ==
    /\ Idle
    /\ threads = {"t1"}
    /\ configs = Configs
    /\ win \in BOOLEAN
    /\ gui \in BOOLEAN
    /\ vcd_enable \in BOOLEAN
    /\ view \in ViewOptions
    /\ xelab_limit \in BOOLEAN
    /\ vcd_path \in PathOptions
    /\ libraries = BuildLibraries(win)
    /\ files = {}

\* The adapter before setup_library_mapping, for the command builders.
CmdInit ==
    /\ Idle
    /\ threads = {}
    /\ configs = {}
    /\ win \in BOOLEAN
    /\ gui = FALSE
    /\ vcd_enable = FALSE
    /\ view = [kind |-> "empty", parts |-> <<>>]
    /\ xelab_limit = FALSE
    /\ vcd_path = [kind |-> "empty", parts |-> <<>>]
    /\ libraries = <<>>
    /\ files = {}

(***************************************************************************)
(* simulate(), statement by statement, for the calling thread t.           *)
(***************************************************************************)
Event(t, e) == trace' = [trace EXCEPT ![t] = Append(@, e)]
Goto(t, label) == pc' = [pc EXCEPT ![t] = label]
Raise(t, e) == /\ pc' = [pc EXCEPT ![t] = "raised"]
               /\ raised' = [raised EXCEPT ![t] = e]

Instance == <<win, gui, vcd_path, vcd_enable, view, xelab_limit, libraries, threads,
              configs>>
Locals == <<call, cmd, vivado_cmd, status, elab, sim>>
Disk == <<files, trees, scripts>>

\* The local vcd_path of the call in progress (lines 250-256).
VcdPathOf(t) == ResolveVcdPath(vcd_path, call[t].output_path, win)

\* Lines 248-291: a test-runner thread enters simulate(); the paths are resolved
\* and the command is composed up to the timescale.
Start(t) ==
    /\ pc[t] \in {"idle", "returned", "raised"}
    /\ runs < MaxRuns
    /\ \E o \in OutputPaths, eo \in BOOLEAN, cfg \in configs :
          /\ call' = [call EXCEPT ![t] =
                         [output_path |-> o, elaborate_only |-> eo, config |-> cfg]]
          /\ cmd' = [cmd EXCEPT ![t] =
                        [kind |-> "list", line |-> "",
                         argv |-> ElabCommandHead(cfg, libraries, win)]]
    /\ runs' = runs + 1
    /\ vivado_cmd' = [vivado_cmd EXCEPT ![t] = NoCommand]
    /\ status' = [status EXCEPT ![t] = TRUE]
    /\ raised' = [raised EXCEPT ![t] = ""]
    /\ elab' = [elab EXCEPT ![t] = "none"]
    /\ sim' = [sim EXCEPT ![t] = "none"]
    /\ trace' = [trace EXCEPT ![t] = <<>>]
    /\ Goto(t, "copytree")
    /\ UNCHANGED <<Instance, Disk, lock, result>>

\* Line 292: os.path.dirname(self._libraries[config.library_name]).
LibraryParent(tbl, library_name) ==
    IF library_name \notin Names(tbl) THEN [raised |-> "KeyError", parts |-> <<>>]
    ELSE IF tbl[DictGet(tbl, library_name)].directory.isNone
         THEN [raised |-> "TypeError", parts |-> <<>>]
         ELSE [raised |-> "",
               parts |-> Dirname(tbl[DictGet(tbl, library_name)].directory.parts)]

\* Lines 292-305: the library tree is copied under output_path (shutil.copytree
\* refuses an existing destination), then the generics and the extra flags are
\* appended and status starts out True.  copytree creates output_path, so the
\* makedirs of lines 300-301 finds it there.
CopyTree(t) ==
    /\ pc[t] = "copytree"
    /\ LET parent == LibraryParent(libraries, call[t].config.library_name)
           dest == <<call[t].output_path, Basename(parent.parts)>>
       IN  IF parent.raised /= ""
           THEN /\ Raise(t, parent.raised)
                /\ UNCHANGED <<trees, cmd, trace>>
           ELSE IF dest \in trees
           THEN /\ Raise(t, "FileExistsError")
                /\ UNCHANGED <<trees, cmd, trace>>
           ELSE /\ trees' = trees \cup {dest}
                /\ cmd' = [cmd EXCEPT ![t].argv =
                              @ \o GenericArgs(call[t].config.generics, win)
                                \o xelab_extra_args(call[t].config)]
                /\ Event(t, "copytree")
                /\ Goto(t, "stage")
                /\ UNCHANGED raised
    /\ UNCHANGED <<Instance, call, vivado_cmd, status, elab, sim, files, scripts,
                   lock, runs, result>>

\* Line 314: `if self._xelab_limit is True`.
TakesLockNever(limit) == FALSE
TakesLock(limit) == limit = TRUE

\* Lines 307-312: the resources are staged (a missing one raises, uncaught by the
\* except clause) and the command is formatted for the platform.
Stage(t) ==
    /\ pc[t] = "stage"
    /\ \E found \in BOOLEAN :
          IF found
          THEN /\ cmd' = [cmd EXCEPT ![t] = format_command_for_os(@.argv, win)]
               /\ Event(t, "stage")
               /\ Goto(t, IF TakesLock(xelab_limit) THEN "acquire" ELSE "launch_elab")
               /\ UNCHANGED raised
          ELSE /\ Raise(t, "FileNotFoundError")
               /\ UNCHANGED <<cmd, trace>>
    /\ UNCHANGED <<Instance, Disk, call, vivado_cmd, status, elab, sim, lock, runs, result>>

\* Line 315: `with self._lock:` blocks until the lock is free.
Acquire(t) ==
    /\ pc[t] = "acquire"
    /\ lock = NoThread
    /\ lock' = t
    /\ Event(t, "acquire")
    /\ Goto(t, "launch_elab")
    /\ UNCHANGED <<Instance, Disk, Locals, raised, runs, result>>

\* Lines 316 and 319: proc = Process(cmd, cwd=output_path).
LaunchElab(t) ==
    /\ pc[t] = "launch_elab"
    /\ elab' = [elab EXCEPT ![t] = "running"]
    /\ Event(t, "launch_elab")
    /\ Goto(t, "wait_elab")
    /\ UNCHANGED <<Instance, Disk, call, cmd, vivado_cmd, status, sim, raised,
                   lock, runs, result>>

\* Lines 317 and 320: proc.consume_output() returns, or raises NonZeroExitCode,
\* when the child has exited.  Without the lock the except clause of line 322
\* runs at once; with it, the with block is left first.
ElabExit(t) ==
    /\ pc[t] = "wait_elab"
    /\ \E exit \in {"zero", "nonzero"} :
          /\ elab' = [elab EXCEPT ![t] = exit]
          /\ IF TakesLock(xelab_limit)
             THEN /\ Goto(t, "release")
                  /\ UNCHANGED <<status, raised>>
             ELSE LET h == ExceptNonZeroExitCode(status[t], exit)
                  IN  /\ status' = [status EXCEPT ![t] = h.status]
                      /\ raised' = [raised EXCEPT ![t] = h.raised]
                      /\ Goto(t, IF h.raised = "" THEN "second_try" ELSE "raised")
    /\ Event(t, "elab_exit")
    /\ UNCHANGED <<Instance, Disk, call, cmd, vivado_cmd, sim, lock, runs, result>>

\* Leaving `with self._lock:` (normally or by the exception), then line 322.
ReleaseKeeps(t) == lock
ReleaseLock(t) == NoThread

Release(t) ==
    /\ pc[t] = "release"
    /\ lock' = ReleaseLock(t)
    /\ LET h == ExceptNonZeroExitCode(status[t], elab[t])
       IN  /\ status' = [status EXCEPT ![t] = h.status]
           /\ raised' = [raised EXCEPT ![t] = h.raised]
           /\ Goto(t, IF h.raised = "" THEN "second_try" ELSE "raised")
    /\ Event(t, "release")
    /\ UNCHANGED <<Instance, Disk, call, cmd, vivado_cmd, elab, sim, runs, result>>

\* Line 327: `if not elaborate_only`.
SkipAfterFailedElab(elaborate_only, elab_exit) == ~elaborate_only /\ elab_exit = "zero"
RunsSimulator(elaborate_only, elab_exit) == ~elaborate_only

\* Lines 327-350, or line 376 when elaborate_only is set.
SecondTry(t) ==
    /\ pc[t] = "second_try"
    /\ IF RunsSimulator(call[t].elaborate_only, elab[t])
       THEN /\ vivado_cmd' = [vivado_cmd EXCEPT ![t] =
                   [kind |-> "list", line |-> "",
                    argv |-> VivadoCommand(call[t].output_path, gui, view, win)]]
            /\ Event(t, "build_vivado_cmd")
            /\ Goto(t, "open_tcl")
       ELSE /\ Event(t, "return")
            /\ Goto(t, "returned")
            /\ UNCHANGED vivado_cmd
    /\ UNCHANGED <<Instance, Disk, call, cmd, status, elab, sim, raised, lock, runs, result>>

\* Line 352: open(tcl_file, "w+") creates or truncates the script.
OpenTcl(t) ==
    /\ pc[t] = "open_tcl"
    /\ scripts' = [scripts EXCEPT ![call[t].output_path] =
                      [exists |-> TRUE, open |-> TRUE, lines |-> <<>>]]
    /\ Event(t, "open_tcl")
    /\ Goto(t, "remove_vcd")
    /\ UNCHANGED <<Instance, Locals, files, trees, raised, lock, runs, result>>

\* Lines 353-354: if os.path.exists(vcd_path): os.remove(vcd_path).
RemoveNothing(fs, path) == fs
RemoveIfExists(fs, path) == fs \ {path}

RemoveVcd(t) ==
    /\ pc[t] = "remove_vcd"
    /\ files' = RemoveIfExists(files, VcdPathOf(t))
    /\ Event(t, IF VcdPathOf(t) \in files THEN "remove_vcd" ELSE "no_vcd")
    /\ Goto(t, "write_tcl")
    /\ UNCHANGED <<Instance, Locals, trees, scripts, raised, lock, runs, result>>

\* Lines 356-365: the writes to the open script.
WriteTcl(t) ==
    /\ pc[t] = "write_tcl"
    /\ scripts' = [scripts EXCEPT ![call[t].output_path].lines =
                      @ \o ScriptLines(gui, vcd_enable, VcdPathOf(t))]
    /\ Event(t, "write_tcl")
    /\ Goto(t, "close_tcl")
    /\ UNCHANGED <<Instance, Locals, files, trees, raised, lock, runs, result>>

\* Leaving `with open(...)`: the script is flushed and closed.
LeftOpen(script) == script
CloseFile(script) == [script EXCEPT !.open = FALSE]

CloseTcl(t) ==
    /\ pc[t] = "close_tcl"
    /\ scripts' = [scripts EXCEPT ![call[t].output_path] = CloseFile(@)]
    /\ Event(t, "close_tcl")
    /\ Goto(t, "launch_sim")
    /\ UNCHANGED <<Instance, Locals, files, trees, raised, lock, runs, result>>

\* Lines 367-371: the command is formatted and the simulator child started.
LaunchSim(t) ==
    /\ pc[t] = "launch_sim"
    /\ vivado_cmd' = [vivado_cmd EXCEPT ![t] = format_command_for_os(@.argv, win)]
    /\ sim' = [sim EXCEPT ![t] = "running"]
    /\ Event(t, "launch_sim")
    /\ Goto(t, "wait_sim")
    /\ UNCHANGED <<Instance, Disk, call, cmd, status, elab, raised, lock, runs, result>>

\* Lines 372-376: consume_output() returns or raises; the except clause of line
\* 374; return status.  A simulator that ran open_vcd has written the waveform
\* file (one that failed may not have got that far).
SimExit(t) ==
    /\ pc[t] = "wait_sim"
    /\ \E exit \in {"zero", "nonzero"}, wrote \in BOOLEAN :
          /\ wrote => vcd_enable
          /\ (vcd_enable /\ exit = "zero") => wrote
          /\ sim' = [sim EXCEPT ![t] = exit]
          /\ files' = IF wrote THEN files \cup {VcdPathOf(t)} ELSE files
          /\ LET h == ExceptNonZeroExitCode(status[t], exit)
             IN  /\ status' = [status EXCEPT ![t] = h.status]
                 /\ raised' = [raised EXCEPT ![t] = h.raised]
                 /\ Goto(t, IF h.raised = "" THEN "returned" ELSE "raised")
                 /\ trace' = [trace EXCEPT ![t] =
                       @ \o (IF h.raised = "" THEN <<"sim_exit", "return">>
                                              ELSE <<"sim_exit">>)]
    /\ UNCHANGED <<Instance, call, cmd, vivado_cmd, elab, trees, scripts, lock, runs, result>>

Next ==
    \/ \E t \in threads : Start(t)
    \/ \E t \in threads : CopyTree(t)
    \/ \E t \in threads : Stage(t)
    \/ \E t \in threads : Acquire(t)
    \/ \E t \in threads : LaunchElab(t)
    \/ \E t \in threads : ElabExit(t)
    \/ \E t \in threads : Release(t)
    \/ \E t \in threads : SecondTry(t)
    \/ \E t \in threads : OpenTcl(t)
    \/ \E t \in threads : RemoveVcd(t)
    \/ \E t \in threads : WriteTcl(t)
    \/ \E t \in threads : CloseTcl(t)
    \/ \E t \in threads : LaunchSim(t)
    \/ \E t \in threads : SimExit(t)

Spec == Init /\ [][Next]_vars
SeqSpec == SeqInit /\ [][Next]_vars

(***************************************************************************)
(* The command builders, called on the adapter.                            *)
(***************************************************************************)
Simulation == <<lock, pc, call, cmd, vivado_cmd, status, raised, elab, sim, trace,
                files, trees, scripts, runs>>
Settings == <<win, gui, vcd_path, vcd_enable, view, xelab_limit, threads, configs>>

SetupLibraryMapping ==
    /\ \E libs \in SeqsUpTo(ProjectLibraries, MaxLibs), ini \in IniFiles :
          libraries' = setup_library_mapping(libraries, libs, ini, win)
    /\ UNCHANGED <<Settings, Simulation, result>>

LibrariesCommand ==
    /\ result' = [method |-> "libraries_command", file_type |-> "", tbl |-> libraries,
                  raised |-> "",
                  value |-> [kind |-> "list", line |-> "",
                             argv |-> libraries_command(libraries, win)]]
    /\ UNCHANGED <<Settings, Simulation, libraries>>

CompileSourceFileCommand ==
    /\ \E source_file \in SourceFiles :
          LET r == compile_source_file_command(source_file, libraries, win)
          IN  result' = [method |-> "compile_source_file_command",
                         file_type |-> source_file.file_type, tbl |-> libraries,
                         raised |-> r.raised, value |-> r.value]
    /\ UNCHANGED <<Settings, Simulation, libraries>>

CmdNext == SetupLibraryMapping \/ LibrariesCommand \/ CompileSourceFileCommand

CmdSpec == CmdInit /\ [][CmdNext]_vars

(***************************************************************************)
(* Properties.                                                             *)
(***************************************************************************)
Count(seq, x) == Cardinality({i \in 1..Len(seq) : seq[i] = x})
Occurs(seq, x) == \E i \in 1..Len(seq) : seq[i] = x
\* Every occurrence of event b in tr comes after an occurrence of event a.
Precedes(tr, a, b) ==
    \A i \in 1..Len(tr) : tr[i] = b => \E j \in 1..(i - 1) : tr[j] = a
\* The number of places where seq holds x directly followed by y.
CountPairs(seq, x, y) ==
    Cardinality({i \in 1..(Len(seq) - 1) : seq[i] = x /\ seq[i + 1] = y})

\* C1: with serialization enabled (xelab_limit is True), no two calls on the
\* adapter have their elaboration child processes alive at the same time.
C1_ElaborationsNeverOverlap ==
    xelab_limit =>
        \A a \in threads, b \in threads :
            (a /= b) => ~(elab[a] = "running" /\ elab[b] = "running")

\* C1 witness: one call's elaboration child is alive while another call, having
\* staged its resources, waits for the lock.
C1_Witness ==
    /\ xelab_limit
    /\ \E a \in threads, b \in threads :
          /\ a /= b
          /\ elab[a] = "running"
          /\ pc[b] = "acquire"

\* C2: a call that returns returns True exactly when elaboration exited zero and
\* (elaborate_only is set or the simulator exited zero); a non-zero exit of either
\* child never leaves simulate() as an exception.
C2_StatusIsAndOfPhases ==
    \A t \in threads :
        /\ pc[t] = "returned" =>
              (status[t] <=> (/\ elab[t] = "zero"
                              /\ (call[t].elaborate_only \/ sim[t] = "zero")))
        /\ raised[t] /= "NonZeroExitCode"
        /\ (elab[t] = "nonzero" \/ sim[t] = "nonzero") => pc[t] /= "raised"

\* C2 witness: a call returned False because elaboration exited non-zero although
\* its simulator exited zero.
C2_Witness ==
    \E t \in threads :
        /\ pc[t] = "returned"
        /\ elab[t] = "nonzero"
        /\ sim[t] = "zero"
        /\ status[t] = FALSE

\* C3: a call never launches the simulator twice; a call that returns with
\* elaborate_only false has launched it exactly once, whatever the elaboration
\* exit status was, and a call with elaborate_only true never launches it.
C3_SimulatorLaunchedOnce ==
    \A t \in threads :
        /\ Count(trace[t], "launch_sim") <= 1
        /\ (pc[t] = "returned" /\ ~call[t].elaborate_only) =>
              Count(trace[t], "launch_sim") = 1
        /\ call[t].elaborate_only =>
              (Count(trace[t], "launch_sim") = 0 /\ sim[t] = "none")

\* C3 witness: elaboration exited non-zero and the simulator was launched all the
\* same, in a call that has returned.
C3_Witness ==
    \E t \in threads :
        /\ pc[t] = "returned"
        /\ ~call[t].elaborate_only
        /\ elab[t] = "nonzero"
        /\ Count(trace[t], "launch_sim") = 1

\* C4: within one call the elaboration child has exited before the session script
\* is opened or written, the script is closed before the simulator is launched,
\* and at the launch the script is on disk, closed, with its complete content.
C4_PhasesOrdered ==
    \A t \in threads :
        /\ Precedes(trace[t], "elab_exit", "open_tcl")
        /\ Precedes(trace[t], "open_tcl", "write_tcl")
        /\ Precedes(trace[t], "write_tcl", "close_tcl")
        /\ Precedes(trace[t], "close_tcl", "launch_sim")
        /\ Occurs(trace[t], "open_tcl") => elab[t] \in {"zero", "nonzero"}
        /\ sim[t] /= "none" =>
              /\ scripts[call[t].output_path].exists
              /\ ~scripts[call[t].output_path].open
              /\ scripts[call[t].output_path].lines
                     = ScriptLines(gui, vcd_enable, VcdPathOf(t))

\* C4 witness: a simulator child is alive after a failed elaboration, while the
\* other thread is inside its own call.
C4_Witness ==
    \E t \in threads, u \in threads :
        /\ t /= u
        /\ sim[t] = "running"
        /\ elab[t] = "nonzero"
        /\ pc[u] \in {"wait_elab", "open_tcl", "write_tcl"}

\* C5: the session script is `open_vcd <resolved waveform path>` and `log_vcd *`
\* iff waveform capture is enabled, followed by `run all` and `quit` iff the run is
\* in batch mode.
C5_ScriptContent ==
    \A t \in threads :
        Occurs(trace[t], "write_tcl") =>
            LET lines == scripts[call[t].output_path].lines
                n == Len(lines)
            IN  /\ n = (IF vcd_enable THEN 2 ELSE 0) + (IF gui THEN 0 ELSE 2)
                /\ vcd_enable =>
                      /\ lines[1] = "open_vcd " \o VcdPathOf(t)
                      /\ lines[2] = "log_vcd *"
                /\ ~gui => (lines[n - 1] = "run all" /\ lines[n] = "quit")
                /\ gui => (~Occurs(lines, "run all") /\ ~Occurs(lines, "quit"))
                /\ ~vcd_enable => ~Occurs(lines, "log_vcd *")

\* C5 witness: a GUI run with waveform capture wrote its script under a waveform
\* path given relative to the run root.
C5_Witness ==
    \E t \in threads :
        /\ gui
        /\ vcd_enable
        /\ vcd_path.kind = "rel"
        /\ Occurs(trace[t], "write_tcl")
        /\ Len(scripts[call[t].output_path].lines) = 2

\* C6: over consecutive calls, from the moment a run writes its session script
\* until its simulator is launched, no waveform file exists at the resolved
\* waveform path: one left by an earlier run was deleted first.
C6_NoStaleWaveform ==
    \A t \in threads :
        pc[t] \in {"write_tcl", "close_tcl", "launch_sim"} => VcdPathOf(t) \notin files

\* C6 witness: a later run, about to launch its simulator, has deleted the
\* waveform file an earlier run left at the same path.
C6_Witness ==
    \E t \in threads :
        /\ runs >= 2
        /\ pc[t] = "launch_sim"
        /\ Occurs(trace[t], "remove_vcd")

\* C7: libraries_command() emits one `-L` entry per table entry, in table order:
\* `-L name` alone for a null directory, `-L name=directory` (on Windows the quoted
\* form ending in xsim.dir\work) otherwise; no name is in the table twice.
C7_LibraryEntries ==
    (result.method = "libraries_command") =>
        LET tbl == result.tbl
            argv == result.value.argv
        IN  /\ Len(argv) = 2 * Len(tbl)
            /\ Cardinality(Names(tbl)) = Len(tbl)
            /\ \A i \in 1..Len(tbl) :
                  /\ argv[2 * i - 1] = "-L"
                  /\ tbl[i].directory.isNone => argv[2 * i] = tbl[i].name
                  /\ (~tbl[i].directory.isNone /\ ~win) =>
                        argv[2 * i] = tbl[i].name \o "="
                                      \o PathStr(tbl[i].directory.parts, FALSE)
                  /\ (~tbl[i].directory.isNone /\ win) =>
                        argv[2 * i] = "\"" \o tbl[i].name \o "="
                                      \o PathStr(tbl[i].directory.parts, TRUE)
                                      \o "\\xsim.dir\\work\""

\* C7 witness: on Windows, a table holding a library with a directory and a
\* precompiled one without was turned into a command.
C7_Witness ==
    /\ result.method = "libraries_command"
    /\ win
    /\ \E i \in 1..Len(result.tbl), j \in 1..Len(result.tbl) :
          /\ result.tbl[i].directory.isNone
          /\ ~result.tbl[j].directory.isNone

\* C8: the complete elaboration command holds the target `L.T` exactly once,
\* `L.glbl` once when enable_glbl is set and not at all otherwise, and one
\* `--generic_top name=value` pair per generic (quoted on Windows).
C8_ElaborationCommand ==
    \A t \in threads :
        pc[t] = "stage" =>
            LET cfg == call[t].config
                argv == cmd[t].argv
                glbl == /\ "xsim.enable_glbl" \in cfg.sim_options.keys
                        /\ cfg.sim_options.enable_glbl
                q == IF win THEN "\"" ELSE ""
            IN  /\ Count(argv, cfg.library_name \o "." \o cfg.entity_name) = 1
                /\ Count(argv, cfg.library_name \o ".glbl") = (IF glbl THEN 1 ELSE 0)
                /\ Count(argv, "--generic_top") = Len(cfg.generics)
                /\ \A i \in 1..Len(cfg.generics) :
                      /\ CountPairs(argv, "--generic_top",
                            q \o cfg.generics[i][1] \o "=" \o cfg.generics[i][2] \o q) = 1
                      /\ Count(argv,
                            q \o cfg.generics[i][1] \o "=" \o cfg.generics[i][2] \o q) = 1

\* C8 witness: on Windows, a complete command for a configuration with a generic
\* and enable_glbl set.
C8_Witness ==
    \E t \in threads :
        /\ pc[t] = "stage"
        /\ win
        /\ call[t].config.generics /= <<>>
        /\ "xsim.enable_glbl" \in call[t].config.sim_options.keys
        /\ call[t].config.sim_options.enable_glbl

\* C9: compile_source_file_command raises CompileError and returns no command for
\* a file_type other than vhdl, verilog and systemverilog, and returns a command
\* without raising for each of those three.
C9_UnsupportedFileType ==
    (result.method = "compile_source_file_command") =>
        IF result.file_type \in {"vhdl", "verilog", "systemverilog"}
        THEN result.raised = "" /\ result.value.kind \in {"list", "str"}
        ELSE result.raised = "CompileError" /\ result.value = NoCommand

\* C9 witness: the method was called on a file of an unsupported type and raised.
C9_Witness ==
    /\ result.method = "compile_source_file_command"
    /\ result.file_type = "tcl"
    /\ result.raised = "CompileError"

\* C10 as stated: the gate is held by a call if and only if serialization is
\* enabled and the call's elaboration child has been launched and has not exited.
C10_GateIffChildAlive ==
    \A t \in threads : (lock = t) <=> (xelab_limit /\ elab[t] = "running")

\* C10 as amended: the gate is held by a call if and only if serialization is
\* enabled and the call is inside its elaboration step, from acquiring the gate
\* just before the launch to releasing it just after the exit; so it is held
\* for the whole life of the child and in no other step.
C10_GateIffInElaborationStep ==
    \A t \in threads :
        /\ (lock = t) <=>
              (xelab_limit /\ pc[t] \in {"launch_elab", "wait_elab", "release"})
        /\ (xelab_limit /\ elab[t] = "running") => lock = t
        /\ ~xelab_limit => lock = NoThread

\* C10 witness: one call holds the gate with its elaboration child alive while
\* another call's simulator child is alive.
C10_Witness ==
    \E t \in threads, u \in threads :
        /\ lock = t
        /\ elab[t] = "running"
        /\ sim[u] = "running"

====
